---- MODULE Spec2Model ----
(***************************************************************************)
(* Model of the GeminiHelper content-script component                      *)
(* (src/src/content/index.tsx).                                            *)
(*                                                                         *)
(* The component keeps three pieces of React state (currentElement,        *)
(* isMenuOpen, isProcessing) and two refs (helperButtonRef,                *)
(* helperMenuRef).  All DOM listeners are registered inside one            *)
(* useEffect whose dependency list is [geminiApiKey]; the handlers that    *)
(* are registered are therefore the functions of the render in which the   *)
(* effect ran, and they read the state values of THAT render.  The model   *)
(* keeps, for every run of the effect, the values its handlers captured    *)
(* (closures[g]); refs are read live.                                      *)
(***************************************************************************)
EXTENDS Integers, Sequences, FiniteSets, TLC

VARIABLES
    currentElement,   \* React state, line 8
    isMenuOpen,       \* React state, line 9
    isProcessing,     \* React state, line 10
    buttons,          \* trigger controls in the document, one per effect run
    menus,            \* menus in the document, one per effect run
    closures,         \* values captured by the handlers of each effect run
    geminiApiKey,     \* the prop
    activeElement,    \* document.activeElement
    value,            \* .value of the form controls
    textContent,      \* .textContent of the page elements
    scroll,           \* <<window.scrollX, window.scrollY>>
    timers,           \* pending setTimeout callbacks, per effect run
    inflight,         \* suspended processText invocations
    alerting,         \* the alert() dialog that blocks the page, if any
    env,              \* the page and the bounds of this run (never changes)
    last              \* the event handled last, with what it observed/emitted

vars == <<currentElement, isMenuOpen, isProcessing, buttons, menus, closures,
          geminiApiKey, activeElement, value, textContent, scroll,
          timers, inflight, alerting, env, last>>

----------------------------------------------------------------------------
(* Bounds of the model *)

MaxGen == 2        \* runs of the effect (mount + credential changes)
MaxTimers == 1     \* pending blur timers per effect run
MaxInflight == 1   \* suspended processText invocations

\* the same on the small page of SpecDeep (below)
MaxGenDeep == 3
MaxInflightDeep == 2

----------------------------------------------------------------------------
(* The host page *)

NULL == "null"
BODY == "body"

\* Elements of the page that can take focus.
PageElements == {"ta", "inp", "chk", "ce", "rb", "link"}

\* The overlay's own elements (created by createHelperButton/createHelperMenu).
HELPER_BUTTON == "helperButton"
HELPER_MENU == "helperMenu"

tagName(el) ==
    CASE el = "ta" -> "TEXTAREA"
      [] el \in {"inp", "chk"} -> "INPUT"
      [] el = "link" -> "A"
      [] el = HELPER_BUTTON -> "BUTTON"
      [] el = BODY -> "BODY"
      [] OTHER -> "DIV"

\* type attribute of the INPUT elements
inputType(el) == IF el = "inp" THEN "text" ELSE IF el = "chk" THEN "checkbox" ELSE NULL

isContentEditable(el) == el = "ce"

role(el) == IF el = "rb" THEN "textbox" ELSE NULL

\* element instanceof HTMLTextAreaElement || element instanceof HTMLInputElement
IsFormControl(el) == tagName(el) \in {"TEXTAREA", "INPUT"}

\* class attribute of an element
className(el) ==
    CASE el = HELPER_BUTTON -> "gemini-helper-button"
      [] el = HELPER_MENU -> "gemini-helper-menu"
      [] OTHER -> ""

\* Element.closest(selector) for a class selector: the overlay controls are
\* children of body and the page elements carry neither class.
closest(el, cls) == IF className(el) = cls THEN el ELSE NULL

\* Texts
ORIGINAL == "helo wrold"
ResponseTexts == {"Hello world."}

\* Layout of the page elements: top and right edge in the unscrolled page.
\* The text-area is pinned to the viewport (position: fixed), the other
\* elements scroll with the page.
LayoutTop(el) ==
    CASE el = "ta" -> 10 [] el = "inp" -> 50 [] el = "chk" -> 90
      [] el = "ce" -> 130 [] el = "rb" -> 170 [] OTHER -> 210

LayoutRight(el) == IF el = "link" THEN 120 ELSE 280

PositionFixed(el) == el = "ta"

ScrollOffsets == {<<0, 0>>, <<3, 7>>}

\* Element.getBoundingClientRect(): relative to the viewport
getBoundingClientRect(el, sc) ==
    IF PositionFixed(el)
    THEN [top |-> LayoutTop(el), right |-> LayoutRight(el)]
    ELSE [top |-> LayoutTop(el) - sc[2], right |-> LayoutRight(el) - sc[1]]

Keys == {"", "key", "key2"}
Prompts == {"correct grammar", "rewrite for clarity"}

----------------------------------------------------------------------------
(* The component.  Handlers are operators on a record w holding everything *)
(* a handler can read or write; c is the record of values captured by the  *)
(* render whose handler is running (closures[g]); refs are read from w.    *)

buttonSize == 32

\* helperButtonRef.current / helperMenuRef.current: the controls created by
\* the latest run of the effect (0 stands for a null ref).
helperButtonRef(w) == Len(w.buttons)
helperMenuRef(w) == Len(w.menus)

\* createHelperButton: the element appended to document.body
createHelperButton ==
    [display |-> "none", textContent |-> "G", loading |-> FALSE,
     pos |-> <<>>, zIndex |-> ""]

\* createHelperMenu: the element appended to document.body
createHelperMenu ==
    [display |-> "none", pos |-> <<>>, zIndex |-> ""]

openMenu(w) ==
    IF helperMenuRef(w) = 0 THEN w
    ELSE [w EXCEPT !.isMenuOpen = TRUE,
                   !.menus[helperMenuRef(w)].display = "block"]

closeMenu(w) ==
    IF helperMenuRef(w) = 0 THEN w
    ELSE [w EXCEPT !.isMenuOpen = FALSE,
                   !.menus[helperMenuRef(w)].display = "none"]

hideHelper(w, c) ==
    IF c.isMenuOpen \/ c.isProcessing THEN w
    ELSE LET w1 == IF helperButtonRef(w) # 0
                   THEN [w EXCEPT !.buttons[helperButtonRef(w)].display = "none"]
                   ELSE w
         IN closeMenu(w1)

updateHelperPosition(w, element) ==
    IF helperButtonRef(w) = 0 \/ helperMenuRef(w) = 0 \/ element = NULL THEN w
    ELSE LET rect == getBoundingClientRect(element, w.scroll)
             top == rect.top + w.scroll[2]
             left == rect.right + w.scroll[1]
         IN [w EXCEPT
               !.buttons[helperButtonRef(w)] =
                   [@ EXCEPT !.pos = <<left - buttonSize, top>>,
                             !.display = "flex",
                             !.zIndex = "9999999"],
               !.menus[helperMenuRef(w)] =
                   [@ EXCEPT !.pos = <<left - 10, top + buttonSize - 8>>,
                             !.zIndex = "9999999"]]

showHelper(w, element) ==
    updateHelperPosition([w EXCEPT !.currentElement = element], element)

\* The test of handleElementFocus (lines 150-155)
IsTargetCandidate(element) ==
    \/ tagName(element) = "TEXTAREA"
    \/ tagName(element) = "INPUT"
    \/ isContentEditable(element)
    \/ role(element) = "textbox"

handleElementFocus(w, element) ==
    IF IsTargetCandidate(element) THEN showHelper(w, element) ELSE w

\* Variant of the containment test that forgets the trigger control.
BlurIsInsideOverlay_MenuOnly(relatedTarget) ==
    /\ relatedTarget # NULL
    /\ closest(relatedTarget, "gemini-helper-menu") # NULL

\* handleElementBlur of effect run g: either returns, or calls setTimeout.
BlurIsInsideOverlay(relatedTarget) ==
    /\ relatedTarget # NULL
    /\ \/ closest(relatedTarget, "gemini-helper-button") # NULL
       \/ closest(relatedTarget, "gemini-helper-menu") # NULL

handleElementBlur(w, g, relatedTarget) ==
    IF BlurIsInsideOverlay(relatedTarget) THEN w
    ELSE [w EXCEPT !.timers[g] = @ + 1]

\* The callback given to setTimeout (lines 170-174)
blurTimeout(w, c) ==
    IF ~c.isMenuOpen /\ ~c.isProcessing THEN hideHelper(w, c) ELSE w

handleScroll(w, c) ==
    IF /\ c.currentElement # NULL
       /\ helperButtonRef(w) # 0
       /\ w.buttons[helperButtonRef(w)].display # "none"
    THEN updateHelperPosition(w, c.currentElement)
    ELSE w

handleResize(w, c) ==
    IF /\ c.currentElement # NULL
       /\ helperButtonRef(w) # 0
       /\ w.buttons[helperButtonRef(w)].display # "none"
    THEN updateHelperPosition(w, c.currentElement)
    ELSE w

handleDocumentClick(w, c, target) ==
    IF /\ closest(target, "gemini-helper-button") = NULL
       /\ closest(target, "gemini-helper-menu") = NULL
    THEN LET w1 == closeMenu(w)
         IN IF w.activeElement # c.currentElement THEN hideHelper(w1, c) ELSE w1
    ELSE w

handleButtonClick(w, c) ==
    IF c.isMenuOpen THEN closeMenu(w) ELSE openMenu(w)

----------------------------------------------------------------------------
(* processText (lines 50-105).  It runs synchronously up to the fetch, is  *)
(* suspended until the fetch settles, then until response.json() settles.  *)

MISSING_KEY_ALERT == "Please set your Gemini API key in the extension settings"
ERROR_ALERT == "Error processing text. Please try again."

\* a response body from which data.candidates[0].content.parts[0].text
\* cannot be read (response.json() rejects or the path is missing)
MALFORMED == "<malformed>"

\* alert() blocks the handler of effect run g (and the whole page) until the
\* dialog is dismissed; the handler then continues.
NoAlert == [g |-> 0, message |-> ""]
alert(w, g, message) == [w EXCEPT !.alerting = [g |-> g, message |-> message]]

\* lines 93-104
processTextFinally(w, c) ==
    LET w1 == IF helperButtonRef(w) # 0
              THEN [w EXCEPT !.buttons[helperButtonRef(w)].textContent = "G",
                             !.buttons[helperButtonRef(w)].loading = FALSE]
              ELSE w
        w2 == [w1 EXCEPT !.isProcessing = FALSE]
    IN IF w2.activeElement # c.currentElement THEN hideHelper(w2, c) ELSE w2

\* lines 90-92: the handler is blocked in alert(); the finally block follows
processTextCatch(w, g) == alert(w, g, ERROR_ALERT)

\* Variant that leaves the menu open when the transform starts.
processText_MenuStaysOpen(w, c, g, prompt) ==
    IF c.currentElement = NULL THEN w
    ELSE LET text == w.textContent[c.currentElement]
         IN IF text = "" THEN w
            ELSE LET w1 == [w EXCEPT !.isProcessing = TRUE]
                     w2 == IF helperButtonRef(w1) # 0
                           THEN [w1 EXCEPT
                                  !.buttons[helperButtonRef(w1)].textContent = "",
                                  !.buttons[helperButtonRef(w1)].loading = TRUE]
                           ELSE w1
                 IN IF c.geminiApiKey = ""
                    THEN alert(w2, g, MISSING_KEY_ALERT)
                    ELSE [w2 EXCEPT
                            !.fetches = Append(@, <<prompt, text>>),
                            !.inflight[<<g, "fetch">>] = @ + 1]

\* lines 51-78: from the call to the first await, to the alert of line 65,
\* or to the return
processText(w, c, g, prompt) ==
    IF c.currentElement = NULL THEN w
    ELSE LET text == w.textContent[c.currentElement]
         IN IF text = "" THEN w
            ELSE LET w1 == [w EXCEPT !.isProcessing = TRUE]
                     w2 == IF helperButtonRef(w1) # 0
                           THEN [w1 EXCEPT
                                  !.buttons[helperButtonRef(w1)].textContent = "",
                                  !.buttons[helperButtonRef(w1)].loading = TRUE]
                           ELSE w1
                     w3 == closeMenu(w2)
                 IN IF c.geminiApiKey = ""
                    THEN alert(w3, g, MISSING_KEY_ALERT)
                    ELSE [w3 EXCEPT
                            !.fetches = Append(@, <<prompt, text>>),
                            !.inflight[<<g, "fetch">>] = @ + 1]

\* lines 69-80: the fetch settles ("ok", "not ok" or "rejected")
fetchSettled(w, c, g, outcome) ==
    LET w1 == [w EXCEPT !.inflight[<<g, "fetch">>] = @ - 1]
    IN IF outcome = "ok"
       THEN [w1 EXCEPT !.inflight[<<g, "json">>] = @ + 1]
       ELSE processTextCatch(w1, g)

\* lines 85-89
writeBack(w, element, improvedText) ==
    IF IsFormControl(element)
    THEN [w EXCEPT !.value[element] = improvedText]
    ELSE [w EXCEPT !.textContent[element] = improvedText]

\* Variant that overwrites the element before it finds the body unreadable.
jsonSettled_WriteFirst(w, c, g, body) ==
    LET w1 == [w EXCEPT !.inflight[<<g, "json">>] = @ - 1]
    IN IF body = MALFORMED
       THEN processTextCatch(writeBack(w1, c.currentElement, ""), g)
       ELSE processTextFinally(writeBack(w1, c.currentElement, body), c)

\* lines 82-89: response.json() settles
jsonSettled(w, c, g, body) ==
    LET w1 == [w EXCEPT !.inflight[<<g, "json">>] = @ - 1]
    IN IF body = MALFORMED
       THEN processTextCatch(w1, g)
       ELSE processTextFinally(writeBack(w1, c.currentElement, body), c)

----------------------------------------------------------------------------
(* State *)

Stages == {"fetch", "json"}

\* what a handler reads and writes, as one record
W ==
    [currentElement |-> currentElement, isMenuOpen |-> isMenuOpen,
     isProcessing |-> isProcessing, buttons |-> buttons, menus |-> menus,
     activeElement |-> activeElement, value |-> value,
     textContent |-> textContent, scroll |-> scroll,
     timers |-> timers, inflight |-> inflight, alerting |-> alerting,
     fetches |-> <<>>]

\* the effect run whose listeners are registered
live == Len(closures)

\* the controls the refs point to
button == buttons[Len(buttons)]
menu == menus[Len(menus)]

Sum(f, S) ==
    LET RECURSIVE sum(_)
        sum(T) == IF T = {} THEN 0
                  ELSE LET x == CHOOSE y \in T : TRUE IN f[x] + sum(T \ {x})
    IN sum(S)

InFlightCount(w) == Sum(w.inflight, DOMAIN w.inflight)

\* The record of the event handled last: which event, its argument, the
\* effect run whose handler ran, one fact about the state it started in
\* (note), and the requests it sent to the text-transform service.
Event(op, arg, g, note, w) ==
    [op |-> op, arg |-> arg, g |-> g, note |-> note, fetches |-> w.fetches]

Commit(w, event) ==
    /\ currentElement' = w.currentElement
    /\ isMenuOpen' = w.isMenuOpen
    /\ isProcessing' = w.isProcessing
    /\ buttons' = w.buttons
    /\ menus' = w.menus
    /\ activeElement' = w.activeElement
    /\ value' = w.value
    /\ textContent' = w.textContent
    /\ scroll' = w.scroll
    /\ timers' = w.timers
    /\ inflight' = w.inflight
    /\ alerting' = w.alerting
    /\ env' = env
    /\ last' = event

InitialText(el) ==
    CASE el = "inp" -> ""       \* an input element has no child text
      [] el = "chk" -> ""
      [] el = "link" -> "more"
      [] OTHER -> ORIGINAL

InitialValue(el) == IF el = "chk" THEN "on" ELSE ORIGINAL

\* The whole page, with the credential set or not and changing once.
FullEnv ==
    [page |-> PageElements, keys |-> {"", "key"},
     maxGen |-> MaxGen, maxInflight |-> MaxInflight, scrolls |-> TRUE]

\* A page with one content-editable element, which does not scroll, where
\* the credential is always set, changes twice, and requests overlap.
DeepEnv ==
    [page |-> {"ce"}, keys |-> {"key", "key2"},
     maxGen |-> MaxGenDeep, maxInflight |-> MaxInflightDeep, scrolls |-> FALSE]

\* After the first render and the first run of the effect (lines 214-234).
InitWith(e) ==
    \E a \in e.page \cup {BODY}, k \in e.keys :
        LET w0 == [currentElement |-> NULL, isMenuOpen |-> FALSE,
                   isProcessing |-> FALSE,
                   buttons |-> <<createHelperButton>>,
                   menus |-> <<createHelperMenu>>,
                   activeElement |-> a,
                   value |-> [el \in {"ta", "inp", "chk"} |-> InitialValue(el)],
                   textContent |-> [el \in PageElements |-> InitialText(el)],
                   scroll |-> <<0, 0>>,
                   timers |-> [g \in 1..e.maxGen |-> 0],
                   inflight |-> [r \in (1..e.maxGen) \X Stages |-> 0],
                   alerting |-> NoAlert, fetches |-> <<>>]
            w == IF a # BODY THEN handleElementFocus(w0, a) ELSE w0
        IN /\ currentElement = w.currentElement
           /\ isMenuOpen = w.isMenuOpen
           /\ isProcessing = w.isProcessing
           /\ buttons = w.buttons
           /\ menus = w.menus
           /\ activeElement = w.activeElement
           /\ value = w.value
           /\ textContent = w.textContent
           /\ scroll = w.scroll
           /\ timers = w.timers
           /\ inflight = w.inflight
           /\ alerting = w.alerting
           /\ env = e
           /\ geminiApiKey = k
           /\ closures = <<[currentElement |-> NULL, isMenuOpen |-> FALSE,
                            isProcessing |-> FALSE, geminiApiKey |-> k]>>
           /\ last = [op |-> "mount", arg |-> a, g |-> 1, note |-> FALSE,
                      fetches |-> <<>>]

Init == InitWith(FullEnv)

----------------------------------------------------------------------------
(* Events.  One action per event the page can deliver; each runs the       *)
(* listeners registered for it to completion.                              *)

Focusable == PageElements \cup {BODY, HELPER_BUTTON}

\* Focus moves to `to` (BODY: focus is dropped).  The browser dispatches
\* focusout on the element losing focus (relatedTarget = the element gaining
\* it, null if none) and then focusin on the element gaining it; both reach
\* the document listeners of the live effect run (lines 221-225).
FocusChange(to) ==
    /\ alerting = NoAlert
    /\ to \in (env.page \cup {BODY, HELPER_BUTTON}) \ {activeElement}
    /\ to = HELPER_BUTTON =>
          \E g \in 1..Len(buttons) : buttons[g].display # "none"
    /\ LET relatedTarget == IF to = BODY THEN NULL ELSE to
           w1 == IF activeElement # BODY
                 THEN handleElementBlur(W, live, relatedTarget)
                 ELSE W
           w2 == [w1 EXCEPT !.activeElement = to]
           w3 == IF to # BODY THEN handleElementFocus(w2, to) ELSE w2
       IN /\ w3.timers[live] <= MaxTimers
          /\ Commit(w3, Event("focus", to, live, activeElement = currentElement, w3))
    /\ UNCHANGED <<closures, geminiApiKey>>

\* The setTimeout callback scheduled by a blur handled by effect run g fires.
TimerFire(g) ==
    /\ alerting = NoAlert
    /\ g \in 1..Len(closures)
    /\ timers[g] > 0
    /\ LET w1 == [W EXCEPT !.timers[g] = @ - 1]
           w2 == blurTimeout(w1, closures[g])
       IN Commit(w2, Event("timer", NULL, g, isMenuOpen \/ isProcessing, w2))
    /\ UNCHANGED <<closures, geminiApiKey>>

\* A click that reaches the document listener (line 226): on a page
\* element, on the page background, on the menu outside its items, or on a
\* trigger control whose own listener has been removed (line 242).
ClickRegion(target) ==
    IF target \in {HELPER_MENU, HELPER_BUTTON} THEN target ELSE "outside"

DocumentClick(target) ==
    /\ alerting = NoAlert
    /\ \/ target \in env.page \cup {BODY}
       \/ target = HELPER_MENU /\ \E g \in 1..Len(menus) : menus[g].display = "block"
       \/ target = HELPER_BUTTON
            /\ \E g \in 1..(Len(buttons) - 1) : buttons[g].display # "none"
    /\ LET w1 == handleDocumentClick(W, closures[live], target)
       IN Commit(w1, Event("click", ClickRegion(target), live, isMenuOpen, w1))
    /\ UNCHANGED <<closures, geminiApiKey>>

\* A click on the trigger control of the live effect run (line 230); the
\* handler stops propagation, so the document listener does not run.
ButtonClick ==
    /\ alerting = NoAlert
    /\ button.display # "none"
    /\ LET w1 == handleButtonClick(W, closures[live])
       IN Commit(w1, Event("button", HELPER_BUTTON, live, isMenuOpen, w1))
    /\ UNCHANGED <<closures, geminiApiKey>>

\* A click on an item of the menu created by effect run g (lines 31-42);
\* onclick is never removed, so the items of every displayed menu respond.
MenuItemClick(g, prompt) ==
    /\ alerting = NoAlert
    /\ g \in 1..Len(menus)
    /\ prompt \in Prompts
    /\ menus[g].display = "block"
    /\ LET w1 == processText(W, closures[g], g, prompt)
       IN /\ InFlightCount(w1) <= env.maxInflight
          /\ Commit(w1, Event("item", NULL, g, isProcessing, w1))
    /\ UNCHANGED <<closures, geminiApiKey>>

\* The fetch of a suspended processText of effect run g settles.
FetchSettle(g, outcome) ==
    /\ alerting = NoAlert
    /\ g \in 1..Len(closures)
    /\ outcome \in {"ok", "not ok", "rejected"}
    /\ inflight[<<g, "fetch">>] > 0
    /\ LET w1 == fetchSettled(W, closures[g], g, outcome)
       IN Commit(w1, Event("fetch", outcome, g, FALSE, w1))
    /\ UNCHANGED <<closures, geminiApiKey>>

\* response.json() of a suspended processText of effect run g settles.
JsonSettle(g, body) ==
    /\ alerting = NoAlert
    /\ g \in 1..Len(closures)
    /\ body \in ResponseTexts \cup {MALFORMED}
    /\ inflight[<<g, "json">>] > 0
    /\ LET w1 == jsonSettled(W, closures[g], g, body)
       IN Commit(w1, Event("json", body, g,
                         activeElement = closures[g].currentElement, w1))
    /\ UNCHANGED <<closures, geminiApiKey>>

\* The alert() dialog is dismissed: the blocked processText continues with
\* its finally block (lines 93-104).
AlertDismiss ==
    /\ alerting # NoAlert
    /\ LET w1 == processTextFinally([W EXCEPT !.alerting = NoAlert],
                                    closures[alerting.g])
       IN Commit(w1, Event("dismiss", alerting.message, alerting.g, FALSE, w1))
    /\ UNCHANGED <<closures, geminiApiKey>>

\* The window is scrolled to another offset.
Scroll(offset) ==
    /\ alerting = NoAlert
    /\ env.scrolls
    /\ offset \in ScrollOffsets \ {scroll}
    /\ LET w1 == handleScroll([W EXCEPT !.scroll = offset], closures[live])
       IN Commit(w1, Event("scroll", NULL, live, FALSE, w1))
    /\ UNCHANGED <<closures, geminiApiKey>>

\* The window is resized (the layout above does not depend on its size).
Resize ==
    /\ alerting = NoAlert
    /\ LET w1 == handleResize(W, closures[live])
       IN Commit(w1, Event("resize", NULL, live, FALSE, w1))
    /\ UNCHANGED <<closures, geminiApiKey>>

\* The geminiApiKey prop changes: the component re-renders, the cleanup of
\* the previous effect run removes its listeners (lines 236-243) and the
\* effect runs again (lines 215-234) with the functions of this render.
KeyChange(key) ==
    /\ alerting = NoAlert
    /\ key \in env.keys \ {geminiApiKey}
    /\ Len(closures) < env.maxGen
    /\ LET w1 == [W EXCEPT !.buttons = Append(@, createHelperButton),
                           !.menus = Append(@, createHelperMenu)]
           w2 == IF activeElement # BODY
                 THEN handleElementFocus(w1, activeElement)
                 ELSE w1
       IN Commit(w2, Event("key", key, live + 1, FALSE, w2))
    /\ geminiApiKey' = key
    /\ closures' = Append(closures,
                          [currentElement |-> currentElement,
                           isMenuOpen |-> isMenuOpen,
                           isProcessing |-> isProcessing,
                           geminiApiKey |-> key])

Next ==
    \/ \E to \in Focusable : FocusChange(to)
    \/ \E g \in 1..env.maxGen : TimerFire(g)
    \/ \E target \in PageElements \cup {BODY, HELPER_MENU, HELPER_BUTTON} :
          DocumentClick(target)
    \/ ButtonClick
    \/ \E g \in 1..env.maxGen, prompt \in Prompts : MenuItemClick(g, prompt)
    \/ \E g \in 1..env.maxGen, outcome \in {"ok", "not ok", "rejected"} :
          FetchSettle(g, outcome)
    \/ \E g \in 1..env.maxGen, body \in ResponseTexts \cup {MALFORMED} :
          JsonSettle(g, body)
    \/ AlertDismiss
    \/ \E offset \in ScrollOffsets : Scroll(offset)
    \/ Resize
    \/ \E key \in Keys : KeyChange(key)

Spec == Init /\ [][Next]_vars

\* The same component on the small page, observed further: the window is
\* not scrolled, the other events are those of Next.
InitDeep == InitWith(DeepEnv)

NextDeep ==
    \/ \E to \in Focusable : FocusChange(to)
    \/ \E g \in 1..env.maxGen : TimerFire(g)
    \/ \E target \in PageElements \cup {BODY, HELPER_MENU, HELPER_BUTTON} :
          DocumentClick(target)
    \/ ButtonClick
    \/ \E g \in 1..env.maxGen, prompt \in Prompts : MenuItemClick(g, prompt)
    \/ \E g \in 1..env.maxGen, outcome \in {"ok", "not ok", "rejected"} :
          FetchSettle(g, outcome)
    \/ \E g \in 1..env.maxGen, body \in ResponseTexts \cup {MALFORMED} :
          JsonSettle(g, body)
    \/ AlertDismiss
    \/ Resize
    \/ \E key \in Keys : KeyChange(key)

SpecDeep == InitDeep /\ [][NextDeep]_vars

----------------------------------------------------------------------------
(* Vocabulary of the properties *)

\* The kinds of element the specification names as eligible: a text-area, a
\* single-line text input, a content-editable element, a role=textbox element.
EligibleKind(el) ==
    \/ tagName(el) = "TEXTAREA"
    \/ tagName(el) = "INPUT" /\ inputType(el) = "text"
    \/ isContentEditable(el)
    \/ role(el) = "textbox"

\* The current text of an element: the form-control value of a text-area or
\* input, the text content otherwise.
CurrentText(el) == IF IsFormControl(el) THEN value[el] ELSE textContent[el]

TriggerHidden == button.display = "none"
MenuClosed == ~isMenuOpen /\ menu.display = "none"
Busy == isProcessing

\* an element that is neither an overlay control nor eligible (by the
\* specification's kinds and by the test of handleElementFocus alike)
Unrelated(el) ==
    el \in PageElements /\ ~EligibleKind(el) /\ ~IsTargetCandidate(el)

----------------------------------------------------------------------------
(* C1: whenever the trigger control is hidden, the menu is closed, no      *)
(* transform is busy and no eligible element holds document focus.         *)
C1_HiddenOnlyWhenIdleAndUnfocused ==
    TriggerHidden =>
        /\ MenuClosed
        /\ ~Busy
        /\ ~(activeElement \in PageElements /\ EligibleKind(activeElement))

(* C2: a focus event sets the Target and shows the trigger if and only if  *)
(* the focused element is of an eligible kind; a focus event on any other  *)
(* element changes neither the Target nor the visibility of trigger or     *)
(* menu.                                                                   *)
C2_FocusSetsTargetIffEligible ==
    [][\A to \in Focusable \ {BODY} :
         (last'.op = "focus" /\ last'.arg = to) =>
            IF EligibleKind(to)
            THEN currentElement' = to /\ button'.display # "none"
            ELSE /\ currentElement' = currentElement
                 /\ button'.display = button.display
                 /\ menu'.display = menu.display]_vars

(* C3: every activation of the trigger control flips the menu: open before *)
(* means closed after, closed before means open after.                     *)
C3_TriggerTogglesMenu ==
    [][last'.op = "button" =>
          /\ isMenuOpen' = ~isMenuOpen
          /\ menu'.display = (IF isMenuOpen THEN "none" ELSE "block")]_vars

(* C4: activating a menu item with a credential configured and a focused   *)
(* Target whose current text is non-empty sends exactly one request that   *)
(* carries that text; and when the response arrives while the Target still *)
(* holds focus, the Target's text is the returned string, Busy is cleared, *)
(* the trigger is visible and the menu closed.                             *)
C4_TransformRoundTrip ==
    /\ ( /\ last.op = "item"
         /\ geminiApiKey # ""
         /\ currentElement # NULL
         /\ activeElement = currentElement
         /\ EligibleKind(currentElement)
         /\ CurrentText(currentElement) # "" )
       => /\ Len(last.fetches) = 1
          /\ last.fetches[1][2] = CurrentText(currentElement)
    /\ ( /\ last.op = "json"
         /\ last.arg \in ResponseTexts
         /\ last.note )
       => /\ CurrentText(closures[last.g].currentElement) = last.arg
          /\ ~Busy
          /\ ~TriggerHidden
          /\ MenuClosed

(* C5: in every state where Busy holds the trigger control is visible.     *)
C5_BusyKeepsTriggerVisible == Busy => ~TriggerHidden

(* C6: a blur timer that fires while the menu is open or a transform is in *)
(* progress does not hide the trigger control.                             *)
C6_TimerDefersWhileOpenOrBusy ==
    [][(last'.op = "timer" /\ (isMenuOpen \/ isProcessing)) =>
          button'.display = button.display]_vars

(* C7: when focus moves from the Target to the trigger control, the blur   *)
(* is ignored: the Target, the trigger, the menu state and the pending     *)
(* timers are all unchanged.                                               *)
C7_BlurIntoOverlayIgnored ==
    [][(last'.op = "focus" /\ last'.arg \in {HELPER_BUTTON, HELPER_MENU}) =>
          /\ currentElement' = currentElement
          /\ buttons' = buttons
          /\ menus' = menus
          /\ isMenuOpen' = isMenuOpen
          /\ timers' = timers]_vars

\* the Target has just lost focus to the trigger control; it is still the
\* Target, the trigger is still displayed and no timer is pending
C7_Witness ==
    /\ last.op = "focus" /\ last.arg = HELPER_BUTTON /\ last.note
    /\ activeElement = HELPER_BUTTON
    /\ currentElement \in PageElements
    /\ ~TriggerHidden
    /\ \A g \in DOMAIN timers : timers[g] = 0

(* C8: when the Target loses focus to an unrelated element while the menu  *)
(* is closed and nothing is busy, and the timer of that blur fires next,   *)
(* the trigger control and the menu are both not displayed afterwards.     *)
C8_BlurToUnrelatedHidesAfterDebounce ==
    [][( /\ last.op = "focus" /\ last.note /\ Unrelated(last.arg)
         /\ MenuClosed /\ ~Busy
         /\ last'.op = "timer" /\ last'.g = last.g ) =>
          /\ button'.display = "none"
          /\ menu'.display = "none"]_vars

(* C9: after the handler of a document click outside both controls that   *)
(* arrived while the menu was open, the menu is closed: the flag is false  *)
(* and no menu is displayed.                                               *)
C9_OutsideClickClosesMenu ==
    (last.op = "click" /\ last.arg = "outside" /\ last.note) =>
        /\ ~isMenuOpen
        /\ \A g \in 1..Len(menus) : menus[g].display = "none"

(* C10: with no credential configured, activating a menu item on a Target  *)
(* that has text shows a notification, sends no request and never sets     *)
(* Busy, from the activation until the handler is finished.                *)
C10_NoCredentialNeverBusy ==
    ( /\ \/ last.op = "item"
         \/ last.op = "dismiss" /\ last.arg = MISSING_KEY_ALERT
      /\ geminiApiKey = ""
      /\ currentElement # NULL
      /\ CurrentText(currentElement) # "" )
    => /\ last.fetches = <<>>
       /\ ~Busy
       /\ last.op = "item" => alerting.message = MISSING_KEY_ALERT

----------------------------------------------------------------------------
(* C11: when the service answers with a non-success status, or the call or *)
(* the reading of its body fails, the handler raises the error             *)
(* notification and writes nothing: no step of processText other than the  *)
(* write-back of a well-formed body changes the text of any element.  When *)
(* the notification is dismissed, the completion step clears Busy and      *)
(* still writes nothing.                                                   *)
C11_FailureLeavesTextAndClearsBusy ==
    [][ /\ ~(last'.op = "json" /\ last'.arg # MALFORMED)
           => value' = value /\ textContent' = textContent
        /\ \/ last'.op = "fetch" /\ last'.arg \in {"not ok", "rejected"}
           \/ last'.op = "json" /\ last'.arg = MALFORMED
           => alerting'.message = ERROR_ALERT
        /\ last'.op = "dismiss" /\ last'.arg = ERROR_ALERT
           => ~isProcessing' ]_vars

\* A failed transform has completed: the notification was raised and
\* dismissed, Busy is clear and the element still holds the original text.
C11_Witness ==
    /\ last.op = "dismiss"
    /\ last.arg = ERROR_ALERT
    /\ ~isProcessing
    /\ closures[last.g].currentElement # NULL
    /\ CurrentText(closures[last.g].currentElement) = ORIGINAL

----------------------------------------------------------------------------
(* C12: when a transform completes successfully and the element it worked  *)
(* on does not hold the focus at that moment, the overlay is hidden by the *)
(* completion step itself: Busy is clear and neither the trigger control   *)
(* nor the menu is displayed.                                              *)
C12_CompletionWithoutFocusHides ==
    /\ last.op = "json"
    /\ last.arg \in ResponseTexts
    /\ ~last.note
    => /\ ~Busy
       /\ TriggerHidden
       /\ menu.display = "none"

----------------------------------------------------------------------------
(* C13: the step that starts a transform sets Busy, shows the loading      *)
(* indicator and closes the menu before it issues the request, and Busy    *)
(* stays true in every state in which a request awaits its response.       *)
C13_BusyFromStartToResponse ==
    /\ last.op = "item" /\ last.fetches # <<>>
       => Busy /\ MenuClosed /\ button.loading
    /\ (\E g \in 1..live : inflight[<<g, "fetch">>] > 0) => Busy

----------------------------------------------------------------------------
(* C14: the element that the registered handlers take as the Target (the   *)
(* scroll, resize, document-click and blur handlers, and the transform of  *)
(* a menu item) is the most recently focused eligible element, and a       *)
(* transform that is started works on that element.                        *)
C14_HandlersUseLatestTarget ==
    /\ currentElement # NULL => closures[live].currentElement = currentElement
    /\ last.op = "item" /\ last.fetches # <<>>
       => closures[last.g].currentElement = currentElement

----------------------------------------------------------------------------
(* C15: whatever the outcome of a transform, its completion step leaves    *)
(* Busy false and the trigger control with its idle content, and the       *)
(* overlay is never stranded in the Busy or loading state: whenever Busy   *)
(* is true or a displayed trigger control shows the loading indicator, an  *)
(* invocation of processText is still to complete.                         *)
C15_NeverStrandedBusy ==
    /\ \/ last.op = "json" /\ last.arg \in ResponseTexts
       \/ last.op = "dismiss"
       => ~Busy /\ ~button.loading /\ button.textContent = "G"
    /\ \/ Busy
       \/ \E g \in 1..Len(buttons) :
            buttons[g].display # "none" /\ buttons[g].loading
       => InFlightCount(W) > 0 \/ alerting # NoAlert

----------------------------------------------------------------------------
----------------------------------------------------------------------------
(* C17: when the window is scrolled or resized while there is a Target and *)
(* the trigger control is displayed, the handler places the trigger at     *)
(* (target right + scrollX - 32, target top + scrollY) and the menu at     *)
(* (target right + scrollX - 10, target top + scrollY + 24), from the      *)
(* Target's bounding box and the scroll offset after the event.            *)
C17_ScrollResizeRecomputesPlacement ==
    [][ /\ last'.op \in {"scroll", "resize"}
        /\ currentElement # NULL
        /\ ~TriggerHidden
        => LET rect == getBoundingClientRect(currentElement, scroll')
           IN /\ button'.pos = <<rect.right + scroll'[1] - 32,
                                 rect.top + scroll'[2]>>
              /\ menu'.pos = <<rect.right + scroll'[1] - 10,
                               rect.top + scroll'[2] + 24>> ]_vars

----------------------------------------------------------------------------
(* C18: the overlay controls are singletons: in every state the document   *)
(* contains at most one trigger control and at most one menu, and the      *)
(* controls the handlers act on are the ones created at mount.             *)
C18_ControlsAreSingletons ==
    /\ Len(buttons) <= 1
    /\ Len(menus) <= 1
    /\ helperButtonRef(W) = 1
    /\ helperMenuRef(W) = 1

----------------------------------------------------------------------------
(* C19: Busy is true exactly while an invocation of the transform has not  *)
(* completed (a request in flight, or the handler blocked in its           *)
(* notification): with two transforms in flight, the completion of one     *)
(* leaves Busy true and a trigger control loading.                         *)
C19_BusyTracksInFlight ==
    /\ Busy <=> (InFlightCount(W) > 0 \/ alerting # NoAlert)
    /\ InFlightCount(W) > 0 => \E g \in 1..Len(buttons) : buttons[g].loading

----------------------------------------------------------------------------
(* C20: a successful response is written into the element that was the     *)
(* Target when its transform started and into no other element, whatever   *)
(* focus changes happen in between: the element a started transform will   *)
(* write into is the Target of the moment it starts, and the write-back    *)
(* changes the text of that element only.                                  *)
C20_ResponseGoesToTargetAtStart ==
    [][ /\ last'.op = "item" /\ last'.fetches # <<>>
           => closures[last'.g].currentElement = currentElement
        /\ last'.op = "json"
           => \A el \in PageElements :
                el # closures[last'.g].currentElement
                => value'[el] = value[el] /\ textContent'[el] = textContent[el]
      ]_vars

====
